---------------------------- MODULE Spec2Model ----------------------------
(***************************************************************************)
(* A model of the ZISO compressor, src/src/ziso.cpp: the offset quantizer  *)
(* (pos_to_index, index_to_pos), the block compressor (compress_block),    *)
(* the option parser (get_options) and main with its encode loop.          *)
(*                                                                         *)
(* Machine words.  TLC's integers end at 2^31-1, so a uint32_t cannot be   *)
(* written at its real width.  The model keeps the source's arithmetic and *)
(* every wrap-around of it, and takes the width of the index word as a     *)
(* definition: a uint32_t is IndexBits wide, and each literal of the       *)
(* source that is a function of that width is written from it              *)
(*    0x80000000  = 2^(IndexBits-1)      1 << 31                           *)
(*    0x7FFFFFFF  = 2^(IndexBits-1) - 1                                    *)
(*    0xFFFFFFFF  = 2^IndexBits - 1                                        *)
(*    0x1FFFFFFFF = 2^(IndexBits+1) - 1                                    *)
(*    0x3FFFFFFFF = 2^(IndexBits+2) - 1                                    *)
(* A uint64_t never wraps for the sizes the model reaches and is a plain   *)
(* natural number.  Every other constant (0x18, sizeof(uint32_t), 512,     *)
(* 2048, the uint8_t cast) is the source's own.                            *)
(***************************************************************************)
EXTENDS Integers, Sequences, FiniteSets, TLC

VARIABLES
    \* main: the run
    pc,             \* the place main has reached
    argv,           \* the options of the command line, in order
    settings,       \* opt settings
    consumed,       \* how many options get_options has handled
    return_code,
    fs,             \* the files: absent, as found at start, or written by this run
    inFileOpen, outFileOpen,
    reported,       \* the final message: none, success or failure
    \* main: the encode
    fileSize,       \* the length of the input file
    magic,          \* whether the input starts with 'ZISO'
    inputSize, blocksNumber, headerSize, indexShift,
    blocks,         \* std::vector<uint32_t> blocks
    currentBlock,
    inPos,          \* inFile.tellg()
    outPos,         \* outFile.tellp()
    outBytes,       \* the bytes written to the destination in this run
    indexOnDisk,    \* the index table the destination holds: none, placeholder, final
    log,            \* per quantization: what the loop wrote and what it quantized
    \* the quantizer on its own
    qStage, qOffset, qShift, qRaw, qEntry, qAligned, qDecoded, qFlag,
    \* the block compressor on its own
    cStage, cSrc, cDst, cOutSize, cUncompressed, cRet

runVars    == <<pc, argv, settings, consumed, return_code, fs, inFileOpen,
                outFileOpen, reported>>
encodeVars == <<fileSize, magic, inputSize, blocksNumber, headerSize, indexShift,
                blocks, currentBlock, inPos, outPos, outBytes, indexOnDisk, log>>
quantVars  == <<qStage, qOffset, qShift, qRaw, qEntry, qAligned, qDecoded, qFlag>>
compVars   == <<cStage, cSrc, cDst, cOutSize, cUncompressed, cRet>>
vars       == <<runVars, encodeVars, quantVars, compVars>>

\* Width of a uint32_t in the model (32 in the source).
IndexBits == 12

\* Samples taken on each side of a word boundary by the quantizer's inputs.
QuantWindow == 12

Pow2(n) == 2^n

\* Conversion to uint32_t: the value modulo 2^IndexBits.
U32(x) == x % Pow2(IndexBits)

\* 0x80000000, also the value of (true << 31).  ziso.cpp:350, 361
RawBit == Pow2(IndexBits - 1)

\* 0x7FFFFFFF.  ziso.cpp:362
OffsetMask == RawBit - 1

\* x | flag for a flag that is 0 or RawBit.  ziso.cpp:350
BitOr(x, flag) ==
    IF flag = 0 \/ (x \div RawBit) % 2 = 1 THEN x ELSE x + flag

\* x & 0x80000000 as a bool.  ziso.cpp:361
HasRawBit(x) == (x \div RawBit) % 2 = 1

Shifts == 0..4

-----------------------------------------------------------------------------
(* The offset quantizer.                                                   *)

\* uint32_t pos_to_index(uint64_t &filePosition, uint8_t shift, bool uncompressed)
\* The result is the returned entry and the value left in filePosition.
\* indexPosition is a uint32_t, so both (indexPosition << shift) are computed
\* in 32 bits and only then widened.
pos_to_index(filePosition, shift, uncompressed) ==
    LET indexPosition0   == U32(filePosition \div Pow2(shift))
        newFilePosition0 == U32(indexPosition0 * Pow2(shift))
        lost             == filePosition > newFilePosition0
        indexPosition1   == IF lost THEN U32(indexPosition0 + 1) ELSE indexPosition0
        newFilePosition  == IF lost THEN U32(indexPosition1 * Pow2(shift))
                                    ELSE newFilePosition0
    IN  [index |-> BitOr(indexPosition1, IF uncompressed THEN RawBit ELSE 0),
         filePosition |-> newFilePosition]

\* A plausible slip: the flag bit is not masked out of the offset.
index_to_pos_unmasked(indexData, shift) ==
    [pos |-> U32(indexData * Pow2(shift)),
     uncompressed |-> HasRawBit(indexData)]

\* uint64_t index_to_pos(uint32_t indexData, uint8_t shift, bool &uncompressed)
\* (indexData & 0x7FFFFFFF) << shift is a 32-bit shift as well.
index_to_pos(indexData, shift) ==
    [pos |-> U32((indexData % RawBit) * Pow2(shift)),
     uncompressed |-> HasRawBit(indexData)]

-----------------------------------------------------------------------------
(* The block compressor.                                                   *)

\* A plausible slip: falling back to raw storage when the codec's output is
\* as long as the source, too (>= for >).
compress_block_raw_on_equal(srcSize, dstSize, uncompressed, outSize) ==
    IF outSize = 0 \/ outSize >= srcSize
    THEN IF dstSize < srcSize
         THEN [ret |-> 0, uncompressed |-> uncompressed, copied |-> FALSE]
         ELSE [ret |-> srcSize, uncompressed |-> TRUE, copied |-> TRUE]
    ELSE [ret |-> outSize, uncompressed |-> FALSE, copied |-> FALSE]

\* uint32_t compress_block(src, srcSize, dst, dstSize, bool &uncompressed, settings)
\* outSize is what LZ4_compress_HC / LZ4_compress_fast returned.  The result is
\* the return value, the value left in uncompressed (untouched on the failure
\* path) and whether memcpy(dst, src, srcSize) ran.
compress_block(srcSize, dstSize, uncompressed, outSize) ==
    IF outSize = 0 \/ outSize > srcSize
    THEN IF dstSize < srcSize
         THEN [ret |-> 0, uncompressed |-> uncompressed, copied |-> FALSE]
         ELSE [ret |-> srcSize, uncompressed |-> TRUE, copied |-> TRUE]
    ELSE [ret |-> outSize, uncompressed |-> FALSE, copied |-> FALSE]

\* std::memcpy(dst, src, n)
memcpy(dst, src, n) ==
    [i \in 1..Len(dst) |-> IF i <= n THEN src[i] ELSE dst[i]]

-----------------------------------------------------------------------------
(* The options.                                                            *)

\* A file name is <<stem, extension>>; NoName is the empty string.
NoName     == <<"", "">>
InputName  == <<"a", "iso">>
OutputName == <<"out", "zso">>
Files      == {InputName, OutputName, <<"a", "zso">>}

\* "The size in bytes of the blocks. By default 2048."
DefaultBlockSize == 2048
\* "Compression level to be used. By default 12."
DefaultCompressionLevel == 12
\* if (!temp_argument || temp_argument < 512)
MinBlockSize == 512
\* if (temp_argument < 1 || temp_argument > 12)
MaxCompressionLevel == 12

\* opt settings as main declares it: the strings empty, the rest as the help
\* text documents the defaults (compress until a ZISO input is detected,
\* no overwrite, the output removed on error).
opt_defaults ==
    [inputFile |-> NoName, outputFile |-> NoName, compress |-> TRUE,
     blockSize |-> DefaultBlockSize, lz4hc |-> FALSE,
     compressionLevel |-> DefaultCompressionLevel,
     overwrite |-> FALSE, keepOutput |-> FALSE]

\* temp_argument = std::stoi(optarg_s): the int v converted to uint64_t.  A
\* negative v becomes 2^64 + v, which is above every bound n <= 2^31 the
\* parser compares it with, and is not zero.
U64Below(v, n) == v >= 0 /\ v < n
U64Above(v, n) == v < 0 \/ v > n
U64Zero(v)     == v = 0
\* (uint8_t)temp_argument: 2^64 + v and v agree modulo 256.
U8(v) == v % 256

\* One option of the command line: the letter getopt_long returns, the file
\* name of -i/-o, and for -c/-b whether std::stoi accepts the argument and
\* the int it returns.
Option(opt, name, isnum, val) ==
    [opt |-> opt, name |-> name, isnum |-> isnum, val |-> val]

RECURSIVE get_options_from(_, _, _)
\* The while loop of get_options from option k on.
get_options_from(args, k, options) ==
    IF k > Len(args)
    THEN [rc |-> 0, options |-> options, consumed |-> Len(args)]
    ELSE
      LET a    == args[k]
          stop(rc) == [rc |-> rc, options |-> options, consumed |-> k]
      IN  CASE a.opt = "i" ->
                 get_options_from(args, k + 1, [options EXCEPT !.inputFile = a.name])
            [] a.opt = "o" ->
                 get_options_from(args, k + 1, [options EXCEPT !.outputFile = a.name])
            [] a.opt = "c" ->
                 IF ~a.isnum THEN stop(1)
                 ELSE IF U64Below(a.val, 1) \/ U64Above(a.val, MaxCompressionLevel)
                 THEN stop(1)
                 ELSE get_options_from(args, k + 1,
                          [options EXCEPT !.compressionLevel = U8(a.val)])
            [] a.opt = "l" ->
                 get_options_from(args, k + 1, [options EXCEPT !.lz4hc = TRUE])
            [] a.opt = "b" ->
                 IF ~a.isnum THEN stop(1)
                 ELSE IF U64Zero(a.val) \/ U64Below(a.val, MinBlockSize)
                 THEN stop(1)
                 ELSE get_options_from(args, k + 1,
                          [options EXCEPT !.blockSize = U8(a.val)])
            [] a.opt = "f" ->
                 get_options_from(args, k + 1, [options EXCEPT !.overwrite = TRUE])
            [] a.opt = "k" ->
                 get_options_from(args, k + 1, [options EXCEPT !.keepOutput = TRUE])
            [] a.opt \in {"h", "?"} -> stop(0)

\* int get_options(int argc, char **argv, opt &options)
get_options(args, options) == get_options_from(args, 1, options)

\* settings.inputFile.substr(0, find_last_of(".")) + ".zso" or ".iso"
DefaultOutput(inputFile, compress) ==
    <<inputFile[1], IF compress THEN "zso" ELSE "iso">>

-----------------------------------------------------------------------------
(* The encode: sizes.                                                      *)

\* 0x18, the size of the header and the place of the index table.
HeaderBytes == 24
\* sizeof(uint32_t) in bytes.
EntryBytes == 4

CeilDiv(a, b) == (a + b - 1) \div b

Min(a, b) == IF a < b THEN a ELSE b

\* blocksNumber = ceil((float)inputSize / settings.blockSize) + 1.  The float
\* quotient is exact for the sizes of the model (below 2^24).  A block size
\* of 0 divides by zero: the quotient is inf or NaN and its conversion to
\* uint32_t is undefined, 0 where the conversion truncates and the largest
\* uint32_t where it saturates.
BlocksNumbers(size, blockSize) ==
    IF blockSize = 0 THEN {0, Pow2(IndexBits) - 1}
    ELSE {U32(CeilDiv(size, blockSize) + 1)}

\* headerSize = 0x18 + (blocksNumber * sizeof(uint32_t)), a uint32_t.
HeaderSize(n) == U32(HeaderBytes + n * EntryBytes)

\* The four tests of main on inputSize.  The first is an if of its own, the
\* other three are one if / else if chain.  0x3FFFFFFFF and 0x1FFFFFFFF are
\* 64-bit literals; 0xFFFFFFFF - headerSize and 0x7FFFFFFF - headerSize are
\* computed in 32 bits.
select_shift(size, hdr, initial) ==
    LET first == IF size > Pow2(IndexBits + 2) - 1 - hdr THEN 4 ELSE initial
    IN  IF size > Pow2(IndexBits + 1) - 1 - hdr THEN 3
        ELSE IF size > U32(Pow2(IndexBits) - 1 - hdr) THEN 2
        ELSE IF size > U32(Pow2(IndexBits - 1) - 1 - hdr) THEN 1
        ELSE first

\* The counts the codec is taken to return for a block: the small ones, and
\* the length of the source.
MaxCodecSample == 2

CodecSizes(srcSize, dstSize) ==
    (0..Min(MaxCodecSample, dstSize)) \cup ({srcSize} \cap (0..dstSize))

\* for (i = blockStartPosition; i <= blockRealStartPosition; i++) write "\0"
PaddingWritten(blockStartPosition, blockRealStartPosition) ==
    IF blockRealStartPosition > blockStartPosition
    THEN blockRealStartPosition - blockStartPosition + 1
    ELSE 0

-----------------------------------------------------------------------------
(* The parts of the state a specification does not use stay as they are.   *)

RunIdle ==
    /\ pc = "off" /\ argv = <<>> /\ settings = <<>> /\ consumed = 0
    /\ return_code = 0 /\ fs = <<>> /\ inFileOpen = FALSE /\ outFileOpen = FALSE
    /\ reported = "none"

EncodeIdle ==
    /\ fileSize = 0 /\ magic = "ISO" /\ inputSize = 0 /\ blocksNumber = 0
    /\ headerSize = 0 /\ indexShift = 0 /\ blocks = <<>> /\ currentBlock = 0
    /\ inPos = 0 /\ outPos = 0 /\ outBytes = 0 /\ indexOnDisk = "none"
    /\ log = <<>>

QuantIdle ==
    /\ qStage = "off" /\ qOffset = 0 /\ qShift = 0 /\ qRaw = FALSE
    /\ qEntry = 0 /\ qAligned = 0 /\ qDecoded = 0 /\ qFlag = FALSE

CompIdle ==
    /\ cStage = "off" /\ cSrc = <<>> /\ cDst = <<>> /\ cOutSize = 0
    /\ cUncompressed = FALSE /\ cRet = 0

-----------------------------------------------------------------------------
(* The quantizer on its own: an offset, a shift and a flag go through      *)
(* pos_to_index, and the entry it returns goes through index_to_pos.       *)

\* Offsets from 0 up, and on both sides of every power of two from the flag
\* bit (2 GB in the source) to the largest offset a shift of 4 can hold.
QuantOffsets ==
    (0..QuantWindow) \cup
    { Pow2(k) + d : k \in (IndexBits - 1)..(IndexBits + 4),
                    d \in (0 - QuantWindow)..QuantWindow }

InitQuant ==
    /\ RunIdle /\ EncodeIdle /\ CompIdle
    /\ qStage = "input"
    /\ qOffset \in QuantOffsets
    /\ qShift \in Shifts
    /\ qRaw \in BOOLEAN
    /\ qEntry = 0 /\ qAligned = 0 /\ qDecoded = 0 /\ qFlag = FALSE

Quantize ==
    /\ qStage = "input"
    /\ LET r == pos_to_index(qOffset, qShift, qRaw)
       IN  /\ qEntry' = r.index
           /\ qAligned' = r.filePosition
    /\ qStage' = "quantized"
    /\ UNCHANGED <<qOffset, qShift, qRaw, qDecoded, qFlag>>
    /\ UNCHANGED <<runVars, encodeVars, compVars>>

Dequantize ==
    /\ qStage = "quantized"
    /\ LET r == index_to_pos(qEntry, qShift)
       IN  /\ qDecoded' = r.pos
           /\ qFlag' = r.uncompressed
    /\ qStage' = "decoded"
    /\ UNCHANGED <<qOffset, qShift, qRaw, qEntry, qAligned>>
    /\ UNCHANGED <<runVars, encodeVars, compVars>>

NextQuant == Quantize \/ Dequantize

SpecQuant == InitQuant /\ [][NextQuant]_vars

-----------------------------------------------------------------------------
(* The block compressor on its own.                                        *)

MaxSrcLen == 3
MaxDstLen == 3
MaxByte   == 1

Bytes == 0..MaxByte

BytesOfLen(n) == [1..n -> Bytes]

\* What the codec can leave behind: a count of at most dstSize and that many
\* bytes at the head of dst.
CodecResults(dst) ==
    { [outSize |-> c, dst |-> memcpy(dst, packed, c)] :
        c \in 0..Len(dst), packed \in BytesOfLen(Len(dst)) }

InitCompress ==
    /\ RunIdle /\ EncodeIdle /\ QuantIdle
    /\ cStage = "call"
    /\ \E n \in 0..MaxSrcLen : cSrc \in BytesOfLen(n)
    /\ \E n \in 0..MaxDstLen : cDst = [i \in 1..n |-> 0]
    /\ cOutSize = 0
    /\ cUncompressed = FALSE
    /\ cRet = 0

CompressBlock ==
    /\ cStage = "call"
    /\ \E codec \in CodecResults(cDst) :
         LET r == compress_block(Len(cSrc), Len(cDst), cUncompressed, codec.outSize)
         IN  /\ cOutSize' = codec.outSize
             /\ cRet' = r.ret
             /\ cUncompressed' = r.uncompressed
             /\ cDst' = IF r.copied THEN memcpy(codec.dst, cSrc, Len(cSrc))
                                    ELSE codec.dst
    /\ cStage' = "returned"
    /\ UNCHANGED cSrc
    /\ UNCHANGED <<runVars, encodeVars, quantVars>>

NextCompress == CompressBlock

SpecCompress == InitCompress /\ [][NextCompress]_vars

-----------------------------------------------------------------------------
(* main.                                                                   *)

MaxArgs == 3

\* The input files the model runs on hold at least the four bytes main
\* reads to detect the format.
MainSizes == {5}

\* The options the model puts on a command line.
Options ==
    { Option("i", InputName, FALSE, 0), Option("o", OutputName, FALSE, 0),
      Option("l", NoName, FALSE, 0), Option("f", NoName, FALSE, 0),
      Option("k", NoName, FALSE, 0), Option("h", NoName, FALSE, 0),
      Option("c", NoName, TRUE, 13) } \cup
    { Option("b", NoName, TRUE, v) : v \in {0 - 1, 511, 512, 767} }

CommandLines == UNION { [1..n -> Options] : n \in 0..MaxArgs }

Exists(f) == f \in Files /\ fs[f].now \in {"intact", "written"}

EncodeStart ==
    /\ fileSize \in MainSizes
    /\ inputSize = 0 /\ blocksNumber = 0 /\ headerSize = 0 /\ indexShift = 0
    /\ blocks = <<>> /\ currentBlock = 0 /\ inPos = 0 /\ outPos = 0
    /\ outBytes = 0 /\ indexOnDisk = "none" /\ log = <<>>

Init ==
    /\ QuantIdle /\ CompIdle
    /\ pc = "start"
    /\ argv \in CommandLines
    /\ settings = opt_defaults
    /\ consumed = 0
    /\ return_code = 0
    /\ fs \in [Files -> { [atStart |-> TRUE, now |-> "intact"],
                          [atStart |-> FALSE, now |-> "absent"] }]
    /\ inFileOpen = FALSE /\ outFileOpen = FALSE
    /\ reported = "none"
    /\ magic \in {"ISO", "ZISO"}
    /\ EncodeStart

\* A plausible slip: the jump to exit without the assignment of return_code.
Fail_keeps_return_code == return_code' = return_code /\ pc' = "exit"

\* return_code = 1; goto exit;
Fail == return_code' = 1 /\ pc' = "exit"

\* Lines 50-62: get_options, then the test that an input file was named.
ParseOptions ==
    /\ pc = "start"
    /\ LET r == get_options(argv, settings)
       IN  /\ settings' = r.options
           /\ consumed' = r.consumed
           /\ IF r.rc # 0
              THEN return_code' = r.rc /\ pc' = "exit"
              ELSE IF r.options.inputFile = NoName
              THEN Fail
              ELSE return_code' = r.rc /\ pc' = "open_input"
    /\ UNCHANGED <<argv, fs, inFileOpen, outFileOpen, reported>>
    /\ UNCHANGED <<encodeVars, quantVars, compVars>>

\* Lines 64-76: the input file is opened for reading.
OpenInput ==
    /\ pc = "open_input"
    /\ IF Exists(settings.inputFile)
       THEN inFileOpen' = TRUE /\ pc' = "detect" /\ UNCHANGED return_code
       ELSE Fail /\ UNCHANGED inFileOpen
    /\ UNCHANGED <<argv, settings, consumed, fs, outFileOpen, reported>>
    /\ UNCHANGED <<encodeVars, quantVars, compVars>>

\* Lines 78-114: the first four bytes decide the direction, and an output
\* name is made from the input name when none was given.
DetectFormat ==
    /\ pc = "detect"
    /\ LET compress == IF magic = "ZISO" THEN FALSE ELSE settings.compress
       IN  settings' = [settings EXCEPT
                !.compress = compress,
                !.outputFile = IF settings.outputFile = NoName
                               THEN DefaultOutput(settings.inputFile, compress)
                               ELSE settings.outputFile]
    /\ inPos' = 4
    /\ pc' = "overwrite_check"
    /\ UNCHANGED <<argv, consumed, return_code, fs, inFileOpen, outFileOpen, reported>>
    /\ UNCHANGED <<fileSize, magic, inputSize, blocksNumber, headerSize, indexShift,
                   blocks, currentBlock, outPos, outBytes, indexOnDisk, log>>
    /\ UNCHANGED <<quantVars, compVars>>

\* Lines 116-129: without -f an existing output file stops the run, and the
\* file is to be kept.
OverwriteCheck ==
    /\ pc = "overwrite_check"
    /\ IF settings.overwrite = FALSE /\ Exists(settings.outputFile)
       THEN /\ settings' = [settings EXCEPT !.keepOutput = TRUE]
            /\ outFileOpen' = TRUE
            /\ Fail
       ELSE /\ pc' = "open_output"
            /\ UNCHANGED <<settings, outFileOpen, return_code>>
    /\ UNCHANGED <<argv, consumed, fs, inFileOpen, reported>>
    /\ UNCHANGED <<encodeVars, quantVars, compVars>>

\* Lines 131-139: the output file is opened for writing, which creates it or
\* empties it; the open can fail, and then leaves the file as it was.
OpenOutput ==
    /\ pc = "open_output"
    /\ \E opened \in BOOLEAN :
         IF opened
         THEN /\ fs' = [fs EXCEPT ![settings.outputFile].now = "written"]
              /\ outFileOpen' = TRUE
              /\ pc' = "opened"
              /\ UNCHANGED return_code
         ELSE Fail /\ UNCHANGED <<fs, outFileOpen>>
    /\ UNCHANGED <<argv, settings, consumed, inFileOpen, reported>>
    /\ UNCHANGED <<encodeVars, quantVars, compVars>>

\* Lines 141-188: the sizes, the shift, the header and the placeholder index.
EncodeInit ==
    /\ pc = "opened" /\ settings.compress
    /\ \E n \in BlocksNumbers(fileSize, settings.blockSize) :
         /\ blocksNumber' = n
         /\ headerSize' = HeaderSize(n)
         /\ indexShift' = select_shift(fileSize, HeaderSize(n), indexShift)
         /\ blocks' = [i \in 1..n |-> 0]
         /\ outPos' = HeaderBytes + n * EntryBytes
         /\ outBytes' = outBytes + HeaderBytes + n * EntryBytes
    /\ inputSize' = fileSize
    /\ inPos' = 0
    /\ currentBlock' = 0
    /\ indexOnDisk' = "placeholder"
    /\ pc' = "loop"
    /\ UNCHANGED <<argv, settings, consumed, return_code, fs, inFileOpen,
                   outFileOpen, reported>>
    /\ UNCHANGED <<fileSize, magic, log>>
    /\ UNCHANGED <<quantVars, compVars>>

\* Lines 190-235: one pass of the block loop.
EncodeBlock ==
    /\ pc = "loop" /\ currentBlock < U32(blocksNumber - 1)
    /\ LET blockStartPosition == outPos
           toRead == Min(settings.blockSize, inputSize - inPos)
       IN  \E outSize \in CodecSizes(toRead, settings.blockSize) :
             LET r == compress_block(toRead, settings.blockSize, FALSE, outSize)
                 q == pos_to_index(blockStartPosition, indexShift, r.uncompressed)
                 padding == PaddingWritten(blockStartPosition, q.filePosition)
             IN  /\ inPos' = inPos + toRead
                 /\ IF r.ret > 0
                    THEN /\ blocks' = [blocks EXCEPT ![currentBlock + 1] = q.index]
                         /\ outPos' = outPos + r.ret + padding
                         /\ outBytes' = outBytes + r.ret + padding
                         /\ log' = Append(log,
                               [start |-> blockStartPosition, payload |-> r.ret,
                                source |-> toRead, raw |-> r.uncompressed,
                                aligned |-> q.filePosition, padding |-> padding,
                                after |-> outPos + r.ret + padding])
                         /\ currentBlock' = currentBlock + 1
                         /\ UNCHANGED <<pc, return_code>>
                    ELSE /\ Fail
                         /\ UNCHANGED <<blocks, outPos, outBytes, log, currentBlock>>
    /\ UNCHANGED <<argv, settings, consumed, fs, inFileOpen, outFileOpen, reported>>
    /\ UNCHANGED <<fileSize, magic, inputSize, blocksNumber, headerSize, indexShift,
                   indexOnDisk>>
    /\ UNCHANGED <<quantVars, compVars>>

\* Lines 237-248: the entry of the end of the data.
Sentinel ==
    /\ pc = "loop" /\ ~(currentBlock < U32(blocksNumber - 1))
    /\ LET blockStartPosition == outPos
           q == pos_to_index(blockStartPosition, indexShift, FALSE)
           padding == PaddingWritten(blockStartPosition, q.filePosition)
       IN  /\ blocks' = [blocks EXCEPT ![blocksNumber] = q.index]
           /\ outPos' = outPos + padding
           /\ outBytes' = outBytes + padding
           /\ log' = Append(log,
                 [start |-> blockStartPosition, payload |-> 0, source |-> 0,
                  raw |-> FALSE, aligned |-> q.filePosition, padding |-> padding,
                  after |-> outPos + padding])
    /\ pc' = "write_index"
    /\ UNCHANGED <<argv, settings, consumed, return_code, fs, inFileOpen,
                   outFileOpen, reported>>
    /\ UNCHANGED <<fileSize, magic, inputSize, blocksNumber, headerSize, indexShift,
                   currentBlock, inPos, indexOnDisk>>
    /\ UNCHANGED <<quantVars, compVars>>

\* Lines 250-252: the index table is written over its placeholder.
WriteIndex ==
    /\ pc = "write_index"
    /\ indexOnDisk' = "final"
    /\ outPos' = HeaderBytes + blocksNumber * EntryBytes
    /\ outBytes' = outBytes + blocksNumber * EntryBytes
    /\ pc' = "exit"
    /\ UNCHANGED <<argv, settings, consumed, return_code, fs, inFileOpen,
                   outFileOpen, reported>>
    /\ UNCHANGED <<fileSize, magic, inputSize, blocksNumber, headerSize, indexShift,
                   blocks, currentBlock, inPos, log>>
    /\ UNCHANGED <<quantVars, compVars>>

\* Lines 255-257: the branch of a ZISO input is empty.
DecodeStub ==
    /\ pc = "opened" /\ ~settings.compress
    /\ pc' = "exit"
    /\ UNCHANGED <<argv, settings, consumed, return_code, fs, inFileOpen,
                   outFileOpen, reported>>
    /\ UNCHANGED <<encodeVars, quantVars, compVars>>

\* Lines 259-296: the files are closed; success is reported, or the output
\* file is removed unless it is to be kept.
Exit ==
    /\ pc = "exit"
    /\ inFileOpen' = FALSE /\ outFileOpen' = FALSE
    /\ IF return_code = 0
       THEN reported' = "success" /\ UNCHANGED fs
       ELSE IF ~settings.keepOutput
       THEN /\ reported' = "error"
            /\ fs' = IF Exists(settings.outputFile)
                     THEN [fs EXCEPT ![settings.outputFile].now = "removed"]
                     ELSE fs
       ELSE UNCHANGED <<reported, fs>>
    /\ pc' = "exited"
    /\ UNCHANGED <<argv, settings, consumed, return_code>>
    /\ UNCHANGED <<encodeVars, quantVars, compVars>>

Next ==
    \/ ParseOptions \/ OpenInput \/ DetectFormat \/ OverwriteCheck \/ OpenOutput
    \/ EncodeInit \/ EncodeBlock \/ Sentinel \/ WriteIndex \/ DecodeStub \/ Exit

Spec == Init /\ [][Next]_vars

-----------------------------------------------------------------------------
(* The encode on its own: main from the point where both files are open,   *)
(* as "-i a.iso" on an ISO input leaves it, for input sizes on both sides  *)
(* of every threshold of the shift.                                        *)

\* The last block of every size is RemainderBytes long, a multiple of every
\* 2^shift, so that a last block stored raw ends on a quantum.
RemainderBytes == 16

EncodeSizes ==
    {RemainderBytes} \cup
    { Pow2(k) + RemainderBytes : k \in (IndexBits - 1)..(IndexBits + 2) }

InitEncode ==
    /\ QuantIdle /\ CompIdle
    /\ pc = "opened"
    /\ argv = <<Option("i", InputName, FALSE, 0)>>
    /\ settings = [get_options(argv, opt_defaults).options EXCEPT
                      !.outputFile = DefaultOutput(InputName, TRUE)]
    /\ consumed = Len(argv)
    /\ return_code = 0
    /\ fs = [f \in Files |->
               IF f = InputName THEN [atStart |-> TRUE, now |-> "intact"]
               ELSE IF f = DefaultOutput(InputName, TRUE)
               THEN [atStart |-> FALSE, now |-> "written"]
               ELSE [atStart |-> FALSE, now |-> "absent"]]
    /\ inFileOpen = TRUE /\ outFileOpen = TRUE
    /\ reported = "none"
    /\ magic = "ISO"
    /\ fileSize \in EncodeSizes
    /\ inputSize = 0 /\ blocksNumber = 0 /\ headerSize = 0 /\ indexShift = 0
    /\ blocks = <<>> /\ currentBlock = 0 /\ inPos = 4 /\ outPos = 0
    /\ outBytes = 0 /\ indexOnDisk = "none" /\ log = <<>>

NextEncode == EncodeInit \/ EncodeBlock \/ Sentinel \/ WriteIndex \/ Exit

SpecEncode == InitEncode /\ [][NextEncode]_vars

-----------------------------------------------------------------------------
(* Claims about the quantizer.                                             *)

\* The offsets whose entry keeps clear of the flag bit: (offset >> shift) + 1,
\* the largest index pos_to_index can return for the offset, is below 2^31.
FitsOffsetBits(offset, shift) == offset < OffsetMask * Pow2(shift)

\* C4 as stated: whenever pos_to_index has produced (entry, aligned) from an
\* offset, a shift and a raw flag, index_to_pos of that entry returns
\* exactly aligned and exactly that raw flag.
C4_RoundTrip ==
    qStage = "decoded" => (qDecoded = qAligned /\ qFlag = qRaw)

\* C4, amended: for every offset below (2^31 - 1) * 2^shift, index_to_pos of
\* the entry pos_to_index returned gives back exactly the aligned offset
\* pos_to_index left and exactly the raw flag it was given.
C4_RoundTripWithinOffsetBits ==
    (qStage = "decoded" /\ FitsOffsetBits(qOffset, qShift)) =>
        (qDecoded = qAligned /\ qFlag = qRaw)

\* C4: a raw block's offset that had to be rounded up under a shift has been
\* quantized and decoded again.
C4_Witness ==
    /\ qStage = "decoded"
    /\ FitsOffsetBits(qOffset, qShift)
    /\ qRaw /\ qShift > 0 /\ qAligned > qOffset
    /\ qDecoded = qAligned /\ qFlag

\* C9: the aligned offset pos_to_index leaves is a multiple of 2^shift, is at
\* least the offset it was given and less than that offset plus 2^shift, and
\* the low 31 bits of the entry are the aligned offset shifted right.
C9_RoundsUp ==
    qStage \in {"quantized", "decoded"} =>
        /\ qAligned % Pow2(qShift) = 0
        /\ qAligned >= qOffset
        /\ qAligned < qOffset + Pow2(qShift)
        /\ qEntry % RawBit = qAligned \div Pow2(qShift)

-----------------------------------------------------------------------------
(* Claims about the block compressor.                                      *)

Prefix(s, n) == [i \in 1..n |-> s[i]]

\* What the claim says of a call, with Fallback(c, srcLen) the condition
\* under which the block is stored raw.
CompressContract(fallback) ==
    cStage = "returned" =>
        IF fallback
        THEN IF Len(cSrc) <= Len(cDst)
             THEN /\ cRet = Len(cSrc)
                  /\ cUncompressed
                  /\ Prefix(cDst, Len(cSrc)) = cSrc
             ELSE cRet = 0
        ELSE cRet = cOutSize /\ ~cUncompressed

\* C5 as stated: the block is stored raw when the codec returns 0 or a count
\* that is not smaller than srcLen; it is returned compressed when
\* 0 < c < srcLen.
C5_FallbackWhenNotSmaller ==
    CompressContract(cOutSize = 0 \/ cOutSize >= Len(cSrc))

\* C5, amended: the block is stored raw (or the call fails, when the source
\* does not fit the destination) when the codec returns 0 or a count larger
\* than srcLen; a count 0 < c <= srcLen is returned as it is, compressed.
C5_FallbackWhenLarger ==
    CompressContract(cOutSize = 0 \/ cOutSize > Len(cSrc))

\* C5: a call in which the codec returned exactly srcLen > 0 bytes has
\* returned, and the block came back compressed with that count.
C5_Witness ==
    /\ cStage = "returned"
    /\ cOutSize = Len(cSrc) /\ Len(cSrc) > 0
    /\ cRet = cOutSize /\ ~cUncompressed

-----------------------------------------------------------------------------
(* Claims about the encode.                                                *)

\* The offset index entry i decodes to.
Decoded(i) == index_to_pos(blocks[i], indexShift).pos

DataBlocks == 1..(blocksNumber - 1)

\* C1: after a complete encode, the offset decoded from the index entry of
\* every data block is the position of the output at which the first byte
\* of that block's payload was written.
C1_EntryMarksPayloadStart ==
    indexOnDisk = "final" =>
        \A i \in DataBlocks : Decoded(i) = log[i].start

\* C2: after a complete encode, the decoded offsets of consecutive entries,
\* the sentinel's included, never decrease; the length between two of them
\* is at most blockSize for a compressed block and is the number of source
\* bytes of the block for a block stored raw.
C2_LengthsFromIndex ==
    indexOnDisk = "final" =>
        \A i \in DataBlocks :
            /\ Decoded(i) <= Decoded(i + 1)
            /\ IF log[i].raw
               THEN Decoded(i + 1) - Decoded(i) = log[i].source
               ELSE Decoded(i + 1) - Decoded(i) <= settings.blockSize

\* The shift the claim gives each input size.
ExpectedShift(size, hdr) ==
    IF size > Pow2(IndexBits + 2) - 1 - hdr THEN 4
    ELSE IF size > Pow2(IndexBits + 1) - 1 - hdr THEN 3
    ELSE IF size > Pow2(IndexBits) - 1 - hdr THEN 2
    ELSE IF size > Pow2(IndexBits - 1) - 1 - hdr THEN 1
    ELSE 0

\* C3: the shift selected at the start of the encode is 4 above the 16 GB
\* threshold, 3 above 8 GB, 2 above 4 GB, 1 above 2 GB and 0 otherwise, and
\* every offset the encode quantizes, shifted right by it, is below 2^31.
C3_ShiftSelected ==
    indexOnDisk # "none" =>
        /\ indexShift = ExpectedShift(inputSize, headerSize)
        /\ \A i \in DOMAIN log : log[i].start \div Pow2(indexShift) < RawBit

\* C10: after every quantization of the encode, the zero bytes written are
\* exactly aligned - offset when the aligned offset exceeds the offset and
\* none otherwise, and the position the output is left at, where the next
\* block starts, is a multiple of 2^indexShift.
C10_PaddingToAlignedOffset ==
    \A i \in DOMAIN log :
        /\ log[i].padding = IF log[i].aligned > log[i].start
                            THEN log[i].aligned - log[i].start
                            ELSE 0
        /\ log[i].after % Pow2(indexShift) = 0

-----------------------------------------------------------------------------
(* Claims about main.                                                      *)

\* -f is nowhere on the command line.
OverwriteNotPermitted == \A k \in DOMAIN argv : argv[k].opt # "f"

\* C6: a run whose destination existed at start and that was not allowed to
\* overwrite it ends with a failure status, has written no byte to the
\* destination and leaves the file as it found it.
C6_ExistingOutputUntouched ==
    (/\ pc = "exited"
     /\ OverwriteNotPermitted
     /\ settings.outputFile \in Files
     /\ fs[settings.outputFile].atStart) =>
        /\ return_code # 0
        /\ outBytes = 0
        /\ fs[settings.outputFile].now = "intact"

\* C7 as stated: a run reports success only after it has written the
\* complete index table of blocksNumber entries over the placeholder, a run
\* on a ZISO input included.
C7_SuccessAfterIndexRewrite ==
    (pc = "exited" /\ return_code = 0 /\ reported = "success") =>
        (indexOnDisk = "final" /\ Len(blocks) = blocksNumber)

\* C7, amended: a run on an input that does not start with 'ZISO' reports
\* success only after it has written the complete index table of
\* blocksNumber entries over the placeholder.
C7_EncodeSuccessAfterIndexRewrite ==
    (pc = "exited" /\ return_code = 0 /\ reported = "success" /\ magic # "ZISO") =>
        (indexOnDisk = "final" /\ Len(blocks) = blocksNumber)

\* C7: a run in which help was requested has encoded its input and reported
\* success.
C7_Witness ==
    /\ pc = "exited" /\ return_code = 0 /\ reported = "success"
    /\ magic # "ZISO"
    /\ \E k \in 1..consumed : argv[k].opt = "h"
    /\ indexOnDisk = "final" /\ Len(blocks) = blocksNumber /\ blocksNumber > 1

\* Option k is the last -b that get_options handled.
LastBlockSize(k) ==
    /\ k \in 1..consumed /\ argv[k].opt = "b"
    /\ \A j \in (k + 1)..consumed : argv[j].opt # "b"

\* C8: a block-size argument b that get_options accepts is the blockSize of
\* the settings, and is at least 512; an argument below 512 (zero or
\* negative included) ends get_options with a non-zero result, no file
\* having been opened.
C8_BlockSizeAsGiven ==
    pc # "start" =>
        \A k \in 1..consumed :
            (argv[k].opt = "b" /\ argv[k].isnum) =>
                IF argv[k].val >= MinBlockSize
                THEN LastBlockSize(k) =>
                        /\ settings.blockSize = argv[k].val
                        /\ settings.blockSize >= MinBlockSize
                ELSE /\ consumed = k
                     /\ return_code # 0
                     /\ ~inFileOpen /\ ~outFileOpen

=============================================================================
